---- MODULE Spec2Model ----
(***************************************************************************)
(* EZID client (src/EZID.py): session/cookie management of EZIDClient, the *)
(* requests its operations build, and the ANVL encoder.                    *)
(*                                                                         *)
(* Python strings are sequences of one-character strings.  An optional     *)
(* value (None or a string) is a record [some, val]; None is               *)
(* [some |-> FALSE, val |-> <<>>].                                         *)
(***************************************************************************)
EXTENDS Integers, Sequences, FiniteSets, TLC

VARIABLES
    credentials,  \* self._credentials: None or a dict of username, password
    session_id,   \* self._session_id
    cookie,       \* self._cookie
    sent,         \* the requests the last call issued, in order
    result,       \* what the last call returned or raised
    received,     \* the responses to them, in the same order
    before,       \* session_id and cookie at the moment the last request of the last call was issued
    called,       \* the last call: its name and arguments
    nlogin,       \* login requests sent since construction, the last logout() or the last assignment to session_id
    ncalls,       \* number of calls made on the client
    version,      \* the version of the client: "0.3" (src/EZID.py) or "0.1" (src/EZID/EZID.py)
    pure,         \* a module-level function under evaluation: its name, argument and result
    cli,          \* a run of main(argv): argv, what process_args returned, the exit code
    threads       \* the callers running concurrently on the client: position and locals of each

vars == <<credentials, session_id, cookie, sent, received, result, before, called, nlogin, ncalls,
          version, pure, cli, threads>>

\* Number of calls made on one client.
MaxCalls == 2

----------------------------------------------------------------------------
\* Optional values and Python truthiness.

None == [some |-> FALSE, val |-> <<>>]

Str(s) == [some |-> TRUE, val |-> s]

\* bool(x) for x None or a string (also a dict held as a sequence of items)
Truthy(x) == x.some /\ x.val /= <<>>

----------------------------------------------------------------------------
\* String helpers.

\* s.split(sep) for a one-character separator
RECURSIVE SplitAcc(_, _, _)
SplitAcc(s, sep, cur) ==
    IF s = <<>> THEN <<cur>>
    ELSE IF Head(s) = sep THEN <<cur>> \o SplitAcc(Tail(s), sep, <<>>)
    ELSE SplitAcc(Tail(s), sep, Append(cur, Head(s)))

split(s, sep) == SplitAcc(s, sep, <<>>)

IsPrefix(p, s) == Len(p) <= Len(s) /\ SubSeq(s, 1, Len(p)) = p

\* s.replace(old, '') : every non-overlapping occurrence, left to right
RECURSIVE RemoveAll(_, _)
RemoveAll(s, old) ==
    IF s = <<>> THEN <<>>
    ELSE IF IsPrefix(old, s) THEN RemoveAll(SubSeq(s, Len(old) + 1, Len(s)), old)
    ELSE <<Head(s)>> \o RemoveAll(Tail(s), old)

Whitespace == {" ", "\t", "\n", "\r", "\f"}

RECURSIVE lstrip(_)
lstrip(s) == IF s /= <<>> /\ Head(s) \in Whitespace THEN lstrip(Tail(s)) ELSE s

RECURSIVE rstrip(_)
rstrip(s) ==
    IF s /= <<>> /\ s[Len(s)] \in Whitespace THEN rstrip(SubSeq(s, 1, Len(s) - 1)) ELSE s

\* s.strip()
strip(s) == rstrip(lstrip(s))

----------------------------------------------------------------------------
\* ANVL encoder.

\* ord(c) for the characters of the model's alphabet
ord(c) ==
    CASE c = "%" -> 37
      [] c = ":" -> 58
      [] c = "\r" -> 13
      [] c = "\n" -> 10
      [] c = " " -> 32
      [] c = "=" -> 61
      [] c = ";" -> 59
      [] c = "a" -> 97
      [] c = "b" -> 98
      [] c = "t" -> 116

HexDigits == <<"0", "1", "2", "3", "4", "5", "6", "7", "8", "9", "A", "B", "C", "D", "E", "F">>

\* "%%%02X" % ord(c)
PercentHex(c) == <<"%", HexDigits[(ord(c) \div 16) + 1], HexDigits[(ord(c) % 16) + 1]>>

\* re.sub("[<reserved>]", lambda c: "%%%02X" % ord(c.group(0)), s)
RECURSIVE re_sub(_, _)
re_sub(reserved, s) ==
    IF s = <<>> THEN <<>>
    ELSE (IF Head(s) \in reserved THEN PercentHex(Head(s)) ELSE <<Head(s)>>)
         \o re_sub(reserved, Tail(s))

\* the label pattern without the colon
LabelReserved_nocolon == {"%", "\r", "\n"}

LabelReserved == {"%", ":", "\r", "\n"}

\* the value pattern without the line feed
ValueReserved_nolf == {"%", "\r"}

ValueReserved == {"%", "\r", "\n"}

\* "%s: %s" % (label, value)
AnvlLine(k, v) == re_sub(LabelReserved, k) \o <<":", " ">> \o re_sub(ValueReserved, v)

\* "\n".join(r)
RECURSIVE join(_)
join(r) ==
    IF r = <<>> THEN <<>>
    ELSE IF Len(r) = 1 THEN r[1]
    ELSE r[1] \o <<"\n">> \o join(Tail(r))

\* d is the dict's items in iteration order: a sequence of <<key, value>>
formatAnvlFromDict(d) == join([i \in 1..Len(d) |-> AnvlLine(d[i][1], d[i][2])])

\* l is a flat list label, value, label, value, ...; l[i+1] raises IndexError
\* on a list of odd length.  The result is None when it raises.
formatAnvlFromList(l) ==
    IF Len(l) % 2 = 1 THEN [some |-> FALSE, val |-> <<>>]
    ELSE [some |-> TRUE,
          val |-> join([i \in 1..(Len(l) \div 2) |-> AnvlLine(l[2 * i - 1], l[2 * i])])]

----------------------------------------------------------------------------
\* Requests, responses and outcomes.

\* 'sessionid='
SessionIdEq == <<"s", "e", "s", "s", "i", "o", "n", "i", "d", "=">>

NoCredentials == [some |-> FALSE, username |-> <<>>, password |-> <<>>]

NoData == [some |-> FALSE, val |-> <<>>]

Dict(items) == [some |-> TRUE, val |-> items]

\* urllib.request.Request(url): GET, no data, no headers
Request(path, target) ==
    [method |-> "GET", path |-> path, target |-> target, body |-> None,
     content_type |-> FALSE, cookie |-> None, auth |-> NoCredentials]

Return(v) == [kind |-> "return", value |-> v]

Raise(e) == [kind |-> e, value |-> None]

\* login without the call of raise_for_status
raise_for_status_skipped(status) == FALSE

\* requests' Response.raise_for_status(): raises HTTPError for 4xx and 5xx
raise_for_status(status) == 400 <= status /\ status < 600

\* urllib's HTTPErrorProcessor: opener.open raises HTTPError unless 2xx
OpenerRaises(status) == ~(200 <= status /\ status < 300)

----------------------------------------------------------------------------
\* EZIDClient.  c is the pair [session_id, cookie] of the client's fields; an
\* outcome is [c, sent, received, before, result].

\* EZIDClient.__init__
init(sid) ==
    [session_id |-> sid,
     cookie |-> IF Truthy(sid) THEN Str(SessionIdEq \o sid.val) ELSE None]

\* @session_id.setter
session_id_setter(c, sid) ==
    [session_id |-> sid,
     cookie |-> IF Truthy(sid) THEN Str(SessionIdEq \o sid.val) ELSE c.cookie]

\* _get_request retrying a refused request once
get_request_retry(c, request, resp) ==
    LET req == IF Truthy(c.cookie) THEN [request EXCEPT !.cookie = c.cookie] ELSE request
    IN  [c |-> c,
         sent |-> IF OpenerRaises(resp.status) THEN <<req, req>> ELSE <<req>>,
         received |-> IF OpenerRaises(resp.status) THEN <<resp, resp>> ELSE <<resp>>,
         before |-> c,
         result |-> IF OpenerRaises(resp.status) THEN Raise("HTTPError")
                    ELSE Return(Str(resp.body))]

\* _get_request returning the body of a refused request instead of raising
get_request_noraise(c, request, resp) ==
    [c |-> c,
     sent |-> << IF Truthy(c.cookie) THEN [request EXCEPT !.cookie = c.cookie] ELSE request >>,
     received |-> <<resp>>,
     before |-> c,
     result |-> Return(Str(resp.body))]

\* EZIDClient._get_request(request), login=False
get_request(c, request, resp) ==
    [c |-> c,
     sent |-> << IF Truthy(c.cookie) THEN [request EXCEPT !.cookie = c.cookie] ELSE request >>,
     received |-> <<resp>>,
     before |-> c,
     result |-> IF OpenerRaises(resp.status) THEN Raise("HTTPError")
                ELSE Return(Str(resp.body))]

\* view caching its output as the session id, as logout does
view_caching(c, identifier, resp) ==
    LET g == get_request(c, Request("id", identifier), resp)
    IN  IF g.result.kind /= "return" THEN g
        ELSE [g EXCEPT !.c = session_id_setter(c, g.result.value)]

\* EZIDClient.view
view(c, identifier, resp) == get_request(c, Request("id", identifier), resp)

\* res.headers.get('Set-Cookie').split(";")[0].split("=")
SetCookieParts(header) == split(split(header, ";")[1], "=")

\* EZIDClient.login
login(c, creds, resp) ==
    LET request == [Request("login", "") EXCEPT
                        !.auth = IF creds.some THEN creds ELSE NoCredentials]
        o == [c |-> c, sent |-> <<request>>, received |-> <<resp>>, before |-> c,
              result |-> Raise("HTTPError")]
    IN  IF raise_for_status(resp.status) THEN o
        ELSE IF ~resp.set_cookie.some THEN [o EXCEPT !.result = Raise("AttributeError")]
        ELSE IF Len(SetCookieParts(resp.set_cookie.val)) < 2
             THEN [o EXCEPT !.result = Raise("IndexError")]
        ELSE LET c2 == session_id_setter(c, Str(SetCookieParts(resp.set_cookie.val)[2]))
             IN  [o EXCEPT !.c = c2, !.result = Return(c2.session_id)]

\* EZIDClient.logout
logout(c, resp) ==
    LET g == get_request(c, Request("logout", ""), resp)
    IN  IF g.result.kind /= "return" THEN g
        ELSE LET c2 == session_id_setter(c, g.result.value)
             IN  [g EXCEPT !.c = c2, !.result = Return(c2.session_id)]

\* logging in before every mutating request
NeedsLogin_always(c) == TRUE

\* if not self.session_id:
NeedsLogin(c) == ~Truthy(c.session_id)

\* if not self.session_id: self.session_id = self.login()
auto_login(c, creds, lresp) ==
    IF NeedsLogin(c)
    THEN LET l == login(c, creds, lresp)
         IN  IF l.result.kind /= "return" THEN l
             ELSE [l EXCEPT !.c = session_id_setter(l.c, l.result.value)]
    ELSE [c |-> c, sent |-> <<>>, received |-> <<>>, before |-> c, result |-> Return(None)]

\* the rest of a mutating operation once auto_login has returned or raised
then_request(a, request, resp) ==
    IF a.result.kind /= "return" THEN a
    ELSE LET g == get_request(a.c, request, resp)
         IN  [g EXCEPT !.sent = a.sent \o g.sent, !.received = a.received \o g.received]

\* request.add_header("Content-Type", ...); request.data = formatAnvlFromDict(data)
WithData(request, data) ==
    [request EXCEPT !.content_type = TRUE, !.body = Str(formatAnvlFromDict(data.val))]

update_request(identifier, data) ==
    WithData([Request("id", identifier) EXCEPT !.method = "POST"], data)

\* create sent as a POST
create_request_post(identifier, data) ==
    LET request == [Request("id", identifier) EXCEPT !.method = "POST"]
    IN  IF Truthy(data) THEN WithData(request, data) ELSE request

create_request(identifier, data) ==
    LET request == [Request("id", identifier) EXCEPT !.method = "PUT"]
    IN  IF Truthy(data) THEN WithData(request, data) ELSE request

mint_request(shoulder, data) ==
    LET request == [Request("shoulder", shoulder) EXCEPT !.method = "POST"]
    IN  IF Truthy(data) THEN WithData(request, data) ELSE request

delete_request(identifier) ==
    [Request("id", identifier) EXCEPT !.method = "DELETE", !.content_type = TRUE]

\* EZIDClient.update
update(c, creds, identifier, data, lresp, resp) ==
    then_request(auto_login(c, creds, lresp), update_request(identifier, data), resp)

\* EZIDClient.create
create(c, creds, identifier, data, lresp, resp) ==
    then_request(auto_login(c, creds, lresp), create_request(identifier, data), resp)

\* 'success: '
SuccessPrefix == <<"s", "u", "c", "c", "e", "s", "s", ":", " ">>

\* .replace('success: ','').strip()
MintResult(text) == strip(RemoveAll(text, SuccessPrefix))

\* EZIDClient.mint
mint(c, creds, shoulder, data, lresp, resp) ==
    LET o == then_request(auto_login(c, creds, lresp), mint_request(shoulder, data), resp)
    IN  IF o.result.kind = "return"
        THEN [o EXCEPT !.result = Return(Str(MintResult(o.result.value.val)))]
        ELSE o

\* EZIDClient.delete
delete(c, creds, identifier, lresp, resp) ==
    then_request(auto_login(c, creds, lresp), delete_request(identifier), resp)

----------------------------------------------------------------------------
\* The inputs: constructor arguments, call arguments, server responses.

Credentials == {NoCredentials, [some |-> TRUE, username |-> <<"u">>, password |-> <<"p">>]}

\* session_id given to the constructor or assigned to the property
SessionIds == {None, Str(<<>>), Str(<<"k">>)}

Identifiers == {"ark:/99999/fk4"}

\* dicts, as their items in iteration order
Dicts == {Dict(<<>>), Dict(<< <<<<"a", ":">>, <<"b", "%">>>> >>)}

\* 'sessionid=ab; x'
GoodSetCookie == Str(SessionIdEq \o <<"a", "b", ";", " ", "x">>)

\* Set-Cookie headers of a login response: absent, well-formed, with an empty
\* value, without '=', with '=' inside the value
SetCookies ==
    {None,
     GoodSetCookie,
     Str(SessionIdEq \o <<";", " ", "x">>),
     Str(<<"s", "e", "s", "s", "i", "o", "n", "i", "d">>),
     Str(SessionIdEq \o <<"a", "=", "b", ";", "x">>)}

Bodies == {<<>>, <<"s", "u", "c", "c", "e", "s", "s", ":", " ", "a", "\n">>}

Response(status, set_cookie, body) ==
    [status |-> status, set_cookie |-> set_cookie, body |-> body]

\* responses of the login endpoint (read through requests)
LoginResponses ==
    {Response(200, h, <<>>) : h \in SetCookies}
        \cup {Response(201, GoodSetCookie, <<>>), Response(401, None, <<>>)}

\* responses of the other endpoints (read through the urllib opener)
Responses ==
    {Response(st, None, b) : st \in {200, 201}, b \in Bodies}
        \cup {Response(401, None, <<"e">>)}

NoResponse == [status |-> 0, set_cookie |-> None, body |-> <<>>]

Call(op, target, data) == [op |-> op, target |-> target, data |-> data]

\* number of login requests among the requests of one call
Logins(reqs) == Cardinality({i \in 1..Len(reqs) : reqs[i].path = "login"})

----------------------------------------------------------------------------
\* The state machine: one action per call on the client.

Self == [session_id |-> session_id, cookie |-> cookie]

\* no function under evaluation, no command line, no concurrent callers
NoPure == [fn |-> "", arg |-> <<>>, out |-> None, done |-> FALSE]

NoCli ==
    [argv |-> <<>>, state |-> "", exit |-> 0, operation |-> "", identifier |-> None,
     data |-> NoData]

NoThreads == <<>>

\* a client constructed by a program
InitClient ==
    /\ credentials \in Credentials
    /\ \E sid \in SessionIds :
         /\ session_id = init(sid).session_id
         /\ cookie = init(sid).cookie
         /\ before = init(sid)
    /\ sent = <<>>
    /\ received = <<>>
    /\ result = Return(None)
    /\ called = Call("__init__", "", NoData)
    /\ nlogin = 0
    /\ ncalls = 0

Init ==
    /\ InitClient
    /\ version = "0.3"
    /\ pure = NoPure
    /\ cli = NoCli
    /\ threads = NoThreads

\* the effect of a call whose outcome is outcome
Finish(outcome, call) ==
    /\ ncalls < MaxCalls
    /\ \E o \in {outcome} :
        /\ session_id' = o.c.session_id
        /\ cookie' = o.c.cookie
        /\ sent' = o.sent
        /\ received' = o.received
        /\ result' = o.result
        /\ before' = o.before
        /\ called' = call
        /\ nlogin' = IF call.op \in {"logout", "session_id"} THEN 0
                     ELSE nlogin + Logins(o.sent)
        /\ ncalls' = ncalls + 1
        /\ UNCHANGED <<credentials, version, pure, cli, threads>>

View ==
    \E identifier \in Identifiers, resp \in Responses :
        Finish(view(Self, identifier, resp), Call("view", identifier, NoData))

Login ==
    \E resp \in LoginResponses :
        Finish(login(Self, credentials, resp), Call("login", "", NoData))

Logout ==
    \E resp \in Responses :
        Finish(logout(Self, resp), Call("logout", "", NoData))

\* the login response a mutating call draws: none when it sends no login request
LoginDraws == IF NeedsLogin(Self) THEN LoginResponses ELSE {NoResponse}

\* the response to its own request: none when the login raised
OwnDraws(lresp) ==
    IF auto_login(Self, credentials, lresp).result.kind = "return" THEN Responses
    ELSE {NoResponse}

Update ==
    \E identifier \in Identifiers, data \in Dicts, lresp \in LoginDraws :
      \E resp \in OwnDraws(lresp) :
        Finish(update(Self, credentials, identifier, data, lresp, resp),
               Call("update", identifier, data))

Create ==
    \E identifier \in Identifiers, data \in Dicts \cup {NoData}, lresp \in LoginDraws :
      \E resp \in OwnDraws(lresp) :
        Finish(create(Self, credentials, identifier, data, lresp, resp),
               Call("create", identifier, data))

Mint ==
    \E shoulder \in Identifiers, data \in Dicts \cup {NoData}, lresp \in LoginDraws :
      \E resp \in OwnDraws(lresp) :
        Finish(mint(Self, credentials, shoulder, data, lresp, resp),
               Call("mint", shoulder, data))

Delete ==
    \E identifier \in Identifiers, lresp \in LoginDraws :
      \E resp \in OwnDraws(lresp) :
        Finish(delete(Self, credentials, identifier, lresp, resp),
               Call("delete", identifier, NoData))

\* client.session_id = sid, by the caller
SetSessionId ==
    \E sid \in SessionIds :
        Finish([c |-> session_id_setter(Self, sid), sent |-> <<>>, received |-> <<>>,
                before |-> Self, result |-> Return(None)],
               Call("session_id", "", sid))

Next ==
    \/ View
    \/ Login
    \/ Logout
    \/ Update
    \/ Create
    \/ Mint
    \/ Delete
    \/ SetSessionId

Spec == Init /\ [][Next]_vars

----------------------------------------------------------------------------
\* Version 0.1 of the client (src/EZID/EZID.py): every request, the login
\* included, goes through _get_request and an opener built with
\* _MyHTTPErrorProcessor; there is no delete.

\* urllib2.HTTPErrorProcessor.http_response of the Python the comment
\* "Bizarre that Python leaves this out" speaks of: an error unless 200 or 206
BaseHTTPErrorProcessor(status) == status \notin {200, 206}

\* the opener without the 201 case of _MyHTTPErrorProcessor
MyHTTPErrorProcessor_base(status) == BaseHTTPErrorProcessor(status)

\* _MyHTTPErrorProcessor.http_response: TRUE when the opener raises HTTPError
MyHTTPErrorProcessor(status) ==
    IF status = 201 THEN FALSE ELSE BaseHTTPErrorProcessor(status)

\* if not output.endswith("\n"): output += "\n"
EndWithNewline(output) ==
    IF output /= <<>> /\ output[Len(output)] = "\n" THEN output ELSE output \o <<"\n">>

\* EZIDClient._get_request(request, login)
get_request_v01(c, request, resp, is_login) ==
    LET o == [c |-> c,
              sent |-> << IF Truthy(c.cookie) THEN [request EXCEPT !.cookie = c.cookie]
                          ELSE request >>,
              received |-> <<resp>>,
              before |-> c,
              result |-> Raise("HTTPError")]
    IN  IF MyHTTPErrorProcessor(resp.status) THEN o
        ELSE IF ~is_login THEN [o EXCEPT !.result = Return(Str(EndWithNewline(resp.body)))]
        ELSE IF ~resp.set_cookie.some THEN [o EXCEPT !.result = Raise("KeyError")]
        ELSE IF Len(SetCookieParts(resp.set_cookie.val)) < 2
             THEN [o EXCEPT !.result = Raise("IndexError")]
        ELSE [o EXCEPT !.result = Return(Str(SetCookieParts(resp.set_cookie.val)[2]))]

\* self.session_id = self._get_request(...); return self.session_id
cache_v01(g) ==
    IF g.result.kind /= "return" THEN g
    ELSE LET c2 == session_id_setter(g.c, g.result.value)
         IN  [g EXCEPT !.c = c2, !.result = Return(c2.session_id)]

view_v01(c, identifier, resp) == get_request_v01(c, Request("id", identifier), resp, FALSE)

login_v01(c, creds, resp) ==
    cache_v01(get_request_v01(c, [Request("login", "") EXCEPT
                                     !.auth = IF creds.some THEN creds ELSE NoCredentials],
                              resp, TRUE))

logout_v01(c, resp) == cache_v01(get_request_v01(c, Request("logout", ""), resp, FALSE))

auto_login_v01(c, creds, lresp) ==
    IF NeedsLogin(c)
    THEN LET l == login_v01(c, creds, lresp)
         IN  IF l.result.kind /= "return" THEN l
             ELSE [l EXCEPT !.c = session_id_setter(l.c, l.result.value)]
    ELSE [c |-> c, sent |-> <<>>, received |-> <<>>, before |-> c, result |-> Return(None)]

then_request_v01(a, request, resp) ==
    IF a.result.kind /= "return" THEN a
    ELSE LET g == get_request_v01(a.c, request, resp, FALSE)
         IN  [g EXCEPT !.sent = a.sent \o g.sent, !.received = a.received \o g.received]

update_v01(c, creds, identifier, data, lresp, resp) ==
    then_request_v01(auto_login_v01(c, creds, lresp), update_request(identifier, data), resp)

create_v01(c, creds, identifier, data, lresp, resp) ==
    then_request_v01(auto_login_v01(c, creds, lresp), create_request(identifier, data), resp)

mint_v01(c, creds, shoulder, data, lresp, resp) ==
    LET o == then_request_v01(auto_login_v01(c, creds, lresp),
                              mint_request(shoulder, data), resp)
    IN  IF o.result.kind = "return"
        THEN [o EXCEPT !.result = Return(Str(MintResult(o.result.value.val)))]
        ELSE o

View_v01 ==
    \E identifier \in Identifiers, resp \in Responses :
        Finish(view_v01(Self, identifier, resp), Call("view", identifier, NoData))

Login_v01 ==
    \E resp \in LoginResponses :
        Finish(login_v01(Self, credentials, resp), Call("login", "", NoData))

Logout_v01 ==
    \E resp \in Responses :
        Finish(logout_v01(Self, resp), Call("logout", "", NoData))

OwnDraws_v01(lresp) ==
    IF auto_login_v01(Self, credentials, lresp).result.kind = "return" THEN Responses
    ELSE {NoResponse}

Update_v01 ==
    \E identifier \in Identifiers, data \in Dicts, lresp \in LoginDraws :
      \E resp \in OwnDraws_v01(lresp) :
        Finish(update_v01(Self, credentials, identifier, data, lresp, resp),
               Call("update", identifier, data))

Create_v01 ==
    \E identifier \in Identifiers, data \in Dicts \cup {NoData}, lresp \in LoginDraws :
      \E resp \in OwnDraws_v01(lresp) :
        Finish(create_v01(Self, credentials, identifier, data, lresp, resp),
               Call("create", identifier, data))

Mint_v01 ==
    \E shoulder \in Identifiers, data \in Dicts \cup {NoData}, lresp \in LoginDraws :
      \E resp \in OwnDraws_v01(lresp) :
        Finish(mint_v01(Self, credentials, shoulder, data, lresp, resp),
               Call("mint", shoulder, data))

Next_v01 ==
    \/ View_v01
    \/ Login_v01
    \/ Logout_v01
    \/ Update_v01
    \/ Create_v01
    \/ Mint_v01
    \/ SetSessionId

\* a client of either version
InitVersions ==
    /\ InitClient
    /\ version \in {"0.1", "0.3"}
    /\ pure = NoPure
    /\ cli = NoCli
    /\ threads = NoThreads

NextVersions ==
    \/ version = "0.3" /\ Next
    \/ version = "0.1" /\ Next_v01

SpecVersions == InitVersions /\ [][NextVersions]_vars

----------------------------------------------------------------------------
\* The module-level functions, each applied to an argument drawn at the start.

\* Length of the labels and values given to the encoder.
MaxLen == 2

Alphabet == {"%", ":", "\r", "\n", " ", "a"}

StringsUpTo(n) == UNION {[1..k -> Alphabet] : k \in 0..n}

\* one label and one value
AnvlPairs == StringsUpTo(MaxLen) \X StringsUpTo(MaxLen)

\* entries of the records with more than one entry
SamplePairs ==
    {<<<<"a">>, <<"a", "\n">>>>,
     <<<<":", " ">>, <<":", " ">>>>,
     <<<<"%", "\r">>, <<"%">>>>,
     <<<<>>, <<>>>>}

\* the items, in iteration order, of the dicts given to formatAnvlFromDict
AnvlDicts ==
    {<<>>} \cup {<<p>> : p \in AnvlPairs}
        \cup {pq \in SamplePairs \X SamplePairs : pq[1][1] /= pq[2][1]}

\* label, value, label, value, ...
Flatten(d) == [i \in 1..(2 * Len(d)) |-> d[(i + 1) \div 2][2 - (i % 2)]]

\* the lists given to formatAnvlFromList: labels may repeat, a value may be missing
AnvlLists ==
    {Flatten(d) : d \in AnvlDicts}
        \cup {Flatten(<<p, q>>) : p \in SamplePairs, q \in SamplePairs}
        \cup {<<p[1]>> : p \in SamplePairs}
        \cup {<<p[1], p[2], q[1]>> : p \in SamplePairs, q \in SamplePairs}

\* identifiers in the body of a mint response
MintedIds ==
    {<<"a">>, <<"a", " ", "b">>, SuccessPrefix \o <<"a">>, <<"b">> \o SuccessPrefix \o <<"a">>}

\* 'success: ' + id + trailing whitespace
MintBodies ==
    {SuccessPrefix \o id \o ws : id \in MintedIds, ws \in {<<>>, <<"\n">>, <<" ", "\r", "\n">>}}

Evaluate(fn, arg) == [fn |-> fn, arg |-> arg, out |-> None, done |-> FALSE]

\* no client is in use
NoClient ==
    /\ credentials = NoCredentials
    /\ session_id = None
    /\ cookie = None
    /\ before = init(None)
    /\ sent = <<>>
    /\ received = <<>>
    /\ result = Return(None)
    /\ called = Call("", "", NoData)
    /\ nlogin = 0
    /\ ncalls = 0

InitPure ==
    /\ NoClient
    /\ version = "0.3"
    /\ cli = NoCli
    /\ threads = NoThreads
    /\ \/ \E d \in AnvlDicts : pure = Evaluate("formatAnvlFromDict", d)
       \/ \E l \in AnvlLists : pure = Evaluate("formatAnvlFromList", l)
       \/ \E b \in MintBodies : pure = Evaluate("MintResult", b)

Returned(out) ==
    /\ pure' = [pure EXCEPT !.out = out, !.done = TRUE]
    /\ UNCHANGED <<credentials, session_id, cookie, sent, received, result, before, called,
                   nlogin, ncalls, version, cli, threads>>

ApplyFormatAnvlFromDict ==
    /\ pure.fn = "formatAnvlFromDict"
    /\ ~pure.done
    /\ Returned(Str(formatAnvlFromDict(pure.arg)))

ApplyFormatAnvlFromList ==
    /\ pure.fn = "formatAnvlFromList"
    /\ ~pure.done
    /\ Returned(formatAnvlFromList(pure.arg))

\* the result transform of mint on a response body
ApplyMintResult ==
    /\ pure.fn = "MintResult"
    /\ ~pure.done
    /\ Returned(Str(MintResult(pure.arg)))

NextPure ==
    \/ ApplyFormatAnvlFromDict
    \/ ApplyFormatAnvlFromList
    \/ ApplyMintResult

SpecPure == InitPure /\ [][NextPure]_vars

----------------------------------------------------------------------------
\* Properties.

Mutating == {"update", "create", "mint", "delete"}

Operations == Mutating \cup {"view", "login", "logout"}

Success(status) == 200 <= status /\ status < 300

\* C1: after a successful logout() on an authenticated client the cached
\* session id is cleared, and a mutating operation called next sends a login
\* request before its own request.
C1_LogoutClearsSession ==
    [][(called.op = "logout" /\ result.kind = "return" /\ Truthy(before.session_id))
          => /\ ~Truthy(session_id)
             /\ called'.op \in Mutating => (Len(sent') >= 1 /\ sent'[1].path = "login")]_vars

C3_NoRequestWithoutCredentials ==
    [][(called'.op \in Mutating /\ ~Truthy(session_id) /\ ~credentials.some)
          => (sent' = <<>> /\ result'.kind /= "return")]_vars

\* C3 amended: a mutating operation on a client with no session and no
\* credentials first sends a login request carrying no credentials; when the
\* server refuses it (4xx/5xx) the operation raises that HTTP error and its
\* own request is never sent.
C3_LoginRefusedStopsOperation ==
    [][(called'.op \in Mutating /\ ~Truthy(session_id) /\ ~credentials.some)
          => /\ Len(sent') >= 1
             /\ sent'[1].path = "login"
             /\ ~sent'[1].auth.some
             /\ ~Success(received'[1].status)
                   => (Len(sent') = 1 /\ result'.kind = "HTTPError")]_vars

\* a mint without session or credentials stopped at the refused login
C3_Witness ==
    /\ called.op = "mint"
    /\ ~credentials.some
    /\ Len(sent) = 1
    /\ sent[1].path = "login"
    /\ received[1].status = 401
    /\ result.kind = "HTTPError"
    /\ ~Truthy(session_id)

\* C4: every request of a mutating operation other than its login request is
\* sent while session_id is non-empty and carries a Cookie header.
C4_MutatingRequestHasSession ==
    called.op \in Mutating =>
        \A i \in 1..Len(sent) :
            sent[i].path /= "login" => (Truthy(before.session_id) /\ sent[i].cookie.some)

\* C5: view sends exactly one request, a GET of id/{identifier} without body,
\* never a login request, and leaves session_id, cookie and credentials as
\* they were, whether the request succeeds or is refused.
C5_ViewFrame ==
    [][called'.op = "view"
          => /\ Len(sent') = 1
             /\ sent'[1].method = "GET"
             /\ sent'[1].path = "id"
             /\ sent'[1].target = called'.target
             /\ ~sent'[1].body.some
             /\ session_id' = session_id
             /\ cookie' = cookie
             /\ credentials' = credentials
             /\ result'.kind = (IF Success(received'[1].status) THEN "return" ELSE "HTTPError")]_vars

\* a view returned on a client that never held a session nor credentials
C5_Witness ==
    /\ called.op = "view"
    /\ result.kind = "return"
    /\ result.value.val /= <<>>
    /\ ~credentials.some
    /\ ~session_id.some
    /\ ~cookie.some
    /\ ~sent[1].cookie.some

C7_CookieDerived ==
    cookie = IF Truthy(session_id) THEN Str(SessionIdEq \o session_id.val) ELSE None

\* C8: apart from an assignment by the caller, session_id becomes non-empty
\* only in a call that received a successful login response with a Set-Cookie
\* sessionid header.
C8_SessionOnlyFromLogin ==
    [][(called'.op /= "session_id" /\ ~Truthy(session_id) /\ Truthy(session_id'))
          => \E i \in 1..Len(sent') :
                /\ sent'[i].path = "login"
                /\ Success(received'[i].status)
                /\ received'[i].set_cookie.some
                /\ IsPrefix(SessionIdEq, received'[i].set_cookie.val)]_vars

OwnRequests == {i \in 1..Len(sent) : sent[i].path /= "login"}

\* C10: each operation's own request has the verb, path and body of the
\* operation table.
C10_RequestTable ==
    \A i \in OwnRequests :
        LET r == sent[i]
            hasData == Truthy(called.data)
        IN  /\ called.op \in Mutating \cup {"view"} => r.target = called.target
            /\ called.op = "view"
                  => (r.method = "GET" /\ r.path = "id" /\ ~r.body.some /\ ~r.content_type)
            /\ called.op = "mint"
                  => /\ r.method = "POST" /\ r.path = "shoulder"
                     /\ r.body.some = hasData /\ r.content_type = hasData
            /\ called.op = "create"
                  => /\ r.method = "PUT" /\ r.path = "id"
                     /\ r.body.some = hasData /\ r.content_type = hasData
            /\ called.op = "update"
                  => /\ r.method = "POST" /\ r.path = "id"
                     /\ r.body.some /\ r.content_type
            /\ called.op = "delete"
                  => (r.method = "DELETE" /\ r.path = "id" /\ ~r.body.some)
            /\ (called.op \in {"mint", "create", "update"} /\ r.body.some)
                  => r.body.val = formatAnvlFromDict(called.data.val)

\* a create with a non-empty record was sent as a PUT with its ANVL body
C10_Witness ==
    /\ called.op = "create"
    /\ Truthy(called.data)
    /\ OwnRequests /= {}
    /\ \A i \in OwnRequests :
          /\ sent[i].method = "PUT"
          /\ sent[i].body = Str(<<"a", "%", "3", "A", ":", " ", "b", "%", "2", "5">>)

----------------------------------------------------------------------------
\* Properties of the ANVL encoder and of mint's result.

\* the entries an encoder call was given, as <<label, value>> pairs
Entries ==
    IF pure.fn = "formatAnvlFromDict" THEN pure.arg
    ELSE [i \in 1..(Len(pure.arg) \div 2) |-> <<pure.arg[2 * i - 1], pure.arg[2 * i]>>]

\* an encoder call that returned text
Encoded ==
    /\ pure.done
    /\ pure.fn \in {"formatAnvlFromDict", "formatAnvlFromList"}
    /\ pure.out.some

\* the lines of the returned text
Lines == IF pure.out.val = <<>> THEN <<>> ELSE split(pure.out.val, "\n")

\* position of the first ': ' of a line, 0 when it has none
RECURSIVE FirstSeparator(_, _)
FirstSeparator(line, i) ==
    IF i + 1 > Len(line) THEN 0
    ELSE IF line[i] = ":" /\ line[i + 1] = " " THEN i
    ELSE FirstSeparator(line, i + 1)

\* a line split at its first ': '
SplitLine(line) ==
    LET i == FirstSeparator(line, 1)
    IN  IF i = 0 THEN <<line, <<>>>>
        ELSE <<SubSeq(line, 1, i - 1), SubSeq(line, i + 2, Len(line))>>

HexValue(h) ==
    CHOOSE n \in 0..15 :
        <<"0", "1", "2", "3", "4", "5", "6", "7", "8", "9", "A", "B", "C", "D", "E", "F">>[n + 1] = h

IsHex(h) ==
    h \in {"0", "1", "2", "3", "4", "5", "6", "7", "8", "9", "A", "B", "C", "D", "E", "F"}

\* the character with a given code
Chr(n) ==
    CASE n = 37 -> "%"
      [] n = 58 -> ":"
      [] n = 13 -> "\r"
      [] n = 10 -> "\n"
      [] n = 32 -> " "
      [] n = 97 -> "a"
      [] OTHER -> "?"

\* every %XX replaced by the character with that code
RECURSIVE Unescape(_)
Unescape(s) ==
    IF s = <<>> THEN <<>>
    ELSE IF s[1] = "%" /\ Len(s) >= 3 /\ IsHex(s[2]) /\ IsHex(s[3])
         THEN <<Chr(16 * HexValue(s[2]) + HexValue(s[3]))>> \o Unescape(SubSeq(s, 4, Len(s)))
    ELSE <<s[1]>> \o Unescape(Tail(s))

\* the characters of s outside a set
RECURSIVE Without(_, _)
Without(s, set) ==
    IF s = <<>> THEN <<>>
    ELSE (IF s[1] \in set THEN <<>> ELSE <<s[1]>>) \o Without(Tail(s), set)

\* the characters of an encoded text that are not part of a %XX
RECURSIVE Unescaped(_)
Unescaped(s) ==
    IF s = <<>> THEN <<>>
    ELSE IF s[1] = "%" THEN Unescaped(SubSeq(s, 4, Len(s)))
    ELSE <<s[1]>> \o Unescaped(Tail(s))

\* C11: every line of the encoded text, split at its first ': ' and with each
\* %XX replaced by the character of that code, gives back the label and the
\* value of its entry; the characters other than '%', ':', CR and LF are those
\* of the label and of the value, unmodified and in order.
C11_RoundTrip ==
    Encoded =>
        /\ Len(Lines) = Len(Entries)
        /\ \A i \in 1..Len(Entries) :
              LET kv == SplitLine(Lines[i])
                  reserved == {"%", ":", "\r", "\n"}
              IN  /\ Unescape(kv[1]) = Entries[i][1]
                  /\ Unescape(kv[2]) = Entries[i][2]
                  /\ Unescaped(kv[1]) = Without(Entries[i][1], reserved)
                  /\ Without(Unescaped(kv[2]), {":"}) = Without(Entries[i][2], reserved)

\* a label with a colon and a value with colon-space and a percent sign were
\* encoded by both encoders
C11_Witness ==
    /\ Encoded
    /\ Len(Entries) = 1
    /\ Entries[1] = <<<<":", " ">>, <<":", " ">>>>
    /\ pure.out.val = <<"%", "3", "A", " ", ":", " ", ":", " ">>

\* '%' followed by the two uppercase hexadecimal digits of the code
ExpectedEscape(c) ==
    CASE c = "%" -> <<"%", "2", "5">>
      [] c = ":" -> <<"%", "3", "A">>
      [] c = "\r" -> <<"%", "0", "D">>
      [] c = "\n" -> <<"%", "0", "A">>
      [] OTHER -> <<c>>

RECURSIVE Escaped(_, _)
Escaped(s, set) ==
    IF s = <<>> THEN <<>>
    ELSE (IF s[1] \in set THEN ExpectedEscape(s[1]) ELSE <<s[1]>>) \o Escaped(Tail(s), set)

Count(s, c) == Cardinality({i \in 1..Len(s) : s[i] = c})

\* C12: the encoded text has one line per entry, in order, joined by single
\* newlines without a trailing one; each line is the escaped label, ': ' and
\* the escaped value, with '%', ':', CR, LF of the label and '%', CR, LF of the
\* value replaced by '%' and two uppercase hex digits; no label or value adds
\* a line or moves the first ': ' of its line.
C12_OneLinePerEntry ==
    Encoded =>
        /\ Len(Lines) = Len(Entries)
        /\ Count(pure.out.val, "\n") = (IF Entries = <<>> THEN 0 ELSE Len(Entries) - 1)
        /\ \A i \in 1..Len(Entries) :
              LET label == Escaped(Entries[i][1], {"%", ":", "\r", "\n"})
                  value == Escaped(Entries[i][2], {"%", "\r", "\n"})
              IN  /\ Lines[i] = label \o <<":", " ">> \o value
                  /\ SplitLine(Lines[i]) = <<label, value>>
                  /\ \A j \in 1..Len(label) : label[j] \notin {":", "\r", "\n"}
                  /\ \A j \in 1..Len(value) : value[j] \notin {"\r", "\n"}

\* two entries whose labels and values hold line feeds, colons and percent
\* signs were encoded as two lines
C12_Witness ==
    /\ Encoded
    /\ pure.fn = "formatAnvlFromDict"
    /\ Entries = << <<<<"a">>, <<"a", "\n">>>>, <<<<"%", "\r">>, <<"%">>>> >>
    /\ pure.out.val = <<"a", ":", " ", "a", "%", "0", "A", "\n",
                        "%", "2", "5", "%", "0", "D", ":", " ", "%", "2", "5">>

\* the identifier and the trailing whitespace of a mint response body
\* 'success: ' + id + whitespace
MintedId(body) == rstrip(SubSeq(body, Len(SuccessPrefix) + 1, Len(body)))

\* C13: for a response body 'success: ' + id + trailing whitespace, mint's
\* result is exactly id, also when id contains the text 'success: '.
C13_MintReturnsId ==
    (pure.done /\ pure.fn = "MintResult") => pure.out.val = MintedId(pure.arg)

----------------------------------------------------------------------------
\* Properties of both versions.

\* C14: in both versions a request answered 201 does not raise HTTPError: the
\* call goes on as after a 200, and when it was the call's last request the
\* call returns its result.
C14_CreatedIsSuccess ==
    \A i \in 1..Len(sent) :
        received[i].status = 201 =>
            /\ ~(i = Len(sent) /\ result.kind = "HTTPError")
            /\ i = Len(sent) => result.kind = "return"
            /\ (i = Len(sent) /\ sent[i].path = "login") =>
                  (result.kind = "return" /\ result.value = Str(<<"a", "b">>))

\* version 0.1: an update whose login and whose own request were both
\* answered 201 returned
C14_Witness ==
    /\ version = "0.1"
    /\ called.op = "update"
    /\ Len(sent) = 2
    /\ received[1].status = 201
    /\ received[2].status = 201
    /\ result.kind = "return"
    /\ session_id = Str(<<"a", "b">>)

----------------------------------------------------------------------------
\* Properties of logout and of the parsing of Set-Cookie.

\* C15: after a logout() that returned, whatever the response body, no later
\* request carries the cookie the client held before the logout.
C15_NoCookieAfterLogout ==
    [][(called.op = "logout" /\ result.kind = "return" /\ before.cookie.some)
          => \A i \in 1..Len(sent') : sent'[i].cookie /= before.cookie]_vars

\* position of the first c in s, 0 when s has none
RECURSIVE IndexOf(_, _, _)
IndexOf(s, c, i) ==
    IF i > Len(s) THEN 0 ELSE IF s[i] = c THEN i ELSE IndexOf(s, c, i + 1)

\* the text of a header between its first '=' and its first ';'
CookieValue(header) ==
    SubSeq(header, IndexOf(header, "=", 1) + 1, IndexOf(header, ";", 1) - 1)

\* C16: login() caches the whole value of a header 'sessionid=' + v + ';' +
\* rest, also when v contains '='.
C16_WholeCookieValue ==
    (/\ called.op = "login"
     /\ result.kind = "return"
     /\ IsPrefix(SessionIdEq, received[1].set_cookie.val)
     /\ IndexOf(received[1].set_cookie.val, ";", 1) > 0)
        => (session_id = Str(CookieValue(received[1].set_cookie.val)) /\ result.value = session_id)

----------------------------------------------------------------------------
\* The command line of version 0.3 (src/EZID.py:245-293): process_args, then
\* main constructs a client and calls the operation.

\* the operations table: an int is the number of arguments, "lambda" is
\* lambda l: l%2 == 1
operations ==
    [mint   |-> [type |-> "lambda", n |-> 0],
     create |-> [type |-> "lambda", n |-> 0],
     view   |-> [type |-> "int", n |-> 1],
     update |-> [type |-> "lambda", n |-> 0],
     delete |-> [type |-> "lambda", n |-> 0],
     login  |-> [type |-> "int", n |-> 0],
     logout |-> [type |-> "int", n |-> 0]]

\* the characters of a key of the table
OperationName(o) ==
    CASE o = "mint"   -> <<"m", "i", "n", "t">>
      [] o = "create" -> <<"c", "r", "e", "a", "t", "e">>
      [] o = "view"   -> <<"v", "i", "e", "w">>
      [] o = "update" -> <<"u", "p", "d", "a", "t", "e">>
      [] o = "delete" -> <<"d", "e", "l", "e", "t", "e">>
      [] o = "login"  -> <<"l", "o", "g", "i", "n">>
      [] o = "logout" -> <<"l", "o", "g", "o", "u", "t">>

\* args[i], counted from 0
Arg(args, i) == args[i + 1]

\* c in s
Contains(s, c) == \E i \in 1..Len(s) : s[i] = c

\* s.split(sep, 1)
RECURSIVE SplitOnce(_, _, _)
SplitOnce(s, sep, acc) ==
    IF s = <<>> THEN <<acc>>
    ELSE IF Head(s) = sep THEN <<acc, Tail(s)>>
    ELSE SplitOnce(Tail(s), sep, Append(acc, Head(s)))

\* data[k] = v on a dict kept as its items in insertion order
SetItem(d, k, v) ==
    IF \E i \in 1..Len(d) : d[i][1] = k
    THEN [i \in 1..Len(d) |-> IF d[i][1] = k THEN <<k, v>> ELSE d[i]]
    ELSE Append(d, <<k, v>>)

\* for i in range(0, len(l), 2): data[l[i]] = l[i+1]
RECURSIVE DictFromList(_, _)
DictFromList(l, d) ==
    IF l = <<>> THEN d
    ELSE DictFromList(SubSeq(l, 3, Len(l)), SetItem(d, l[1], l[2]))

\* _usageError(): the usage text on stderr and sys.exit(1)
UsageError ==
    [usage |-> TRUE, credentials |-> NoCredentials, session_id |-> None, operation |-> "",
     identifier |-> None, data |-> NoData]

\* the argument-count check of process_args: TRUE when it calls _usageError
WrongArgumentCount(operation, nargs) ==
    \/ operations[operation].type = "int" /\ nargs /= operations[operation].n
    \/ operations[operation].type = "lambda" /\ ~(nargs % 2 = 1)

\* process_args(args). A first argument without ':' other than '-' is
\* assigned to the local name sessionid, and session_id, the name that is
\* returned, keeps its None.
process_args(args) ==
    IF Len(args) < 3 THEN UsageError
    ELSE
      LET creds == IF Contains(Arg(args, 1), ":")
                   THEN [some |-> TRUE,
                         username |-> SplitOnce(Arg(args, 1), ":", <<>>)[1],
                         password |-> SplitOnce(Arg(args, 1), ":", <<>>)[2]]
                   ELSE NoCredentials
          sessionid == IF ~Contains(Arg(args, 1), ":") /\ Arg(args, 1) /= <<"-">>
                       THEN Str(Arg(args, 1)) ELSE None
          operation == {o \in DOMAIN operations : IsPrefix(Arg(args, 2), OperationName(o))}
      IN  IF Cardinality(operation) /= 1 THEN UsageError
          ELSE
            LET op == CHOOSE o \in operation : TRUE
            IN  IF WrongArgumentCount(op, Len(args) - 3) THEN UsageError
                ELSE [usage |-> FALSE,
                      credentials |-> creds,
                      session_id |-> None,
                      operation |-> op,
                      identifier |-> IF Len(args) > 3 THEN Str(Arg(args, 3)) ELSE None,
                      data |-> IF op \in {"mint", "create", "update"} /\ Len(args) > 4
                               THEN Dict(DictFromList(SubSeq(args, 5, Len(args)), <<>>))
                               ELSE NoData]

\* the branches of main: TRUE when main calls an operation of the client
Invokes(operation, data) ==
    \/ operation \in {"login", "view", "delete", "create", "mint"}
    \/ operation = "update" /\ Truthy(data)

\* no operation called: the client as it is, nothing sent
NoCall(c) == [c |-> c, sent |-> <<>>, received |-> <<>>, before |-> c, result |-> Return(None)]

\* the try block of main
main_try(c, creds, operation, identifier, data, lresp, resp) ==
    CASE operation = "login" -> login(c, creds, lresp)
      [] operation = "view" -> view(c, identifier.val, resp)
      [] operation = "update" /\ Truthy(data) -> update(c, creds, identifier.val, data, lresp, resp)
      [] operation = "delete" -> delete(c, creds, identifier.val, lresp, resp)
      [] operation = "create" -> create(c, creds, identifier.val, data, lresp, resp)
      [] operation = "mint" -> mint(c, creds, identifier.val, data, lresp, resp)
      [] OTHER -> NoCall(c)

\* except urllib.error.HTTPError: the opener's error is printed; the errors
\* of login (requests' HTTPError, AttributeError, IndexError) are not caught
Uncaught(o) ==
    /\ o.result.kind /= "return"
    /\ ~(o.result.kind = "HTTPError" /\ o.sent[Len(o.sent)].path /= "login")

\* command lines: argv[0], credentials, operation, arguments
ProgramName == <<"E", "Z", "I", "D">>

CredentialArgs == {<<"u", ":", "p">>, <<"k">>, <<"-">>}

OperationArgs ==
    {<<"m">>, <<"c">>, <<"v">>, <<"u">>, <<"d">>, <<"l">>, <<"x">>, <<>>,
     OperationName("login"), OperationName("logout"), <<"l", "o", "g", "o">>}

ArgumentLists ==
    {<<>>,
     << <<"i">> >>,
     << <<"i">>, <<"a">> >>,
     << <<"i">>, <<"a">>, <<"b">> >>,
     << <<"i">>, <<"a">>, <<"b">>, <<"a">>, <<"%">> >>}

Argvs ==
    {<<ProgramName>>, <<ProgramName, <<"-">> >>}
        \cup {<<ProgramName, c, o>> \o l :
                c \in CredentialArgs, o \in OperationArgs, l \in ArgumentLists}

InitCli ==
    /\ NoClient
    /\ version = "0.3"
    /\ pure = NoPure
    /\ threads = NoThreads
    /\ \E argv \in Argvs : cli = [NoCli EXCEPT !.argv = argv, !.state = "start"]

\* main up to the construction of the client
ProcessArgs ==
    /\ cli.state = "start"
    /\ LET r == process_args(cli.argv)
       IN  IF r.usage
           THEN /\ cli' = [cli EXCEPT !.state = "usage", !.exit = 1]
                /\ UNCHANGED <<credentials, session_id, cookie, before, called>>
           ELSE /\ cli' = [cli EXCEPT !.state = "constructed", !.operation = r.operation,
                                      !.identifier = r.identifier, !.data = r.data]
                /\ credentials' = r.credentials
                /\ session_id' = init(r.session_id).session_id
                /\ cookie' = init(r.session_id).cookie
                /\ before' = init(r.session_id)
                /\ called' = Call("__init__", "", NoData)
    /\ UNCHANGED <<sent, received, result, nlogin, ncalls, version, pure, threads>>

\* the response of the login endpoint, when the branch logs in
LoginDrawsCli ==
    IF cli.operation = "login" THEN LoginResponses
    ELSE IF cli.operation \in {"update", "delete", "create", "mint"}
            /\ Invokes(cli.operation, cli.data) /\ NeedsLogin(Self)
         THEN LoginResponses
    ELSE {NoResponse}

\* the response to the operation's own request, when it is sent
OwnDrawsCli(lresp) ==
    IF cli.operation = "view" THEN Responses
    ELSE IF cli.operation \in {"update", "delete", "create", "mint"}
            /\ Invokes(cli.operation, cli.data)
            /\ auto_login(Self, credentials, lresp).result.kind = "return"
         THEN Responses
    ELSE {NoResponse}

\* the try block of main and the end of the process
Dispatch ==
    /\ cli.state = "constructed"
    /\ \E lresp \in LoginDrawsCli :
         \E resp \in OwnDrawsCli(lresp) :
           LET o == main_try(Self, credentials, cli.operation, cli.identifier, cli.data,
                             lresp, resp)
               invoked == Invokes(cli.operation, cli.data)
           IN  /\ session_id' = o.c.session_id
               /\ cookie' = o.c.cookie
               /\ sent' = o.sent
               /\ received' = o.received
               /\ result' = o.result
               /\ before' = o.before
               /\ called' = IF invoked
                            THEN Call(cli.operation,
                                      IF cli.identifier.some THEN cli.identifier.val ELSE <<>>,
                                      cli.data)
                            ELSE called
               /\ nlogin' = nlogin + Logins(o.sent)
               /\ ncalls' = IF invoked THEN ncalls + 1 ELSE ncalls
               /\ cli' = [cli EXCEPT !.state = "done", !.exit = IF Uncaught(o) THEN 1 ELSE 0]
    /\ UNCHANGED <<credentials, version, pure, threads>>

NextCli ==
    \/ ProcessArgs
    \/ Dispatch

SpecCli == InitCli /\ [][NextCli]_vars

----------------------------------------------------------------------------
\* Properties of the command line.

\* the credentials argument is a bare session id
BareSessionId(argv) ==
    /\ Len(argv) >= 3
    /\ argv[2] /= <<>>
    /\ argv[2] /= <<"-">>
    /\ \A i \in 1..Len(argv[2]) : argv[2][i] /= ":"

\* C17: with a bare session id as credentials argument, a mutating operation
\* run from the command line performs no login and sends its request with
\* Cookie "sessionid=" + that id.
C17_BareSessionIdUsed ==
    (/\ cli.state = "done"
     /\ BareSessionId(cli.argv)
     /\ cli.operation \in Mutating
     /\ ncalls = 1)
        => /\ Len(sent) = 1
           /\ sent[1].path /= "login"
           /\ sent[1].cookie = Str(SessionIdEq \o cli.argv[2])

\* the operations an argument is a prefix of
Selected(arg) == {o \in Operations : IsPrefix(arg, OperationName(o))}

\* C18: a command line that passes the prefix and argument-count checks
\* invokes the selected operation exactly once and no other; any other
\* command line exits with code 1 and nothing invoked or sent.
C18_OperationInvokedOnce ==
    /\ cli.state = "done"
          => /\ ncalls = 1
             /\ Selected(cli.argv[3]) = {called.op}
    /\ cli.state = "usage"
          => /\ cli.exit = 1
             /\ ncalls = 0
             /\ sent = <<>>

----------------------------------------------------------------------------
\* Two callers running a mutating operation on one client at the same time
\* (src/EZID.py:154-171, 181-239). Nothing in the client locks, so the
\* callers interleave between any two reads or writes of _session_id and
\* _cookie and around each exchange with the server.

Threads == {1, 2}

\* the operations the callers run
ThreadOps == {"update", "delete"}

\* session ids the server issues, one per login
IssuedIds == {<<"a">>, <<"b">>}

\* the cookie held in place of "sessionid=" + self._session_id
CookieFor_bare(sid) == sid

\* "sessionid=" + self._session_id
CookieFor(sid) == Str(SessionIdEq \o sid.val)

\* the session ids returned so far by the login endpoint
CompletedIds ==
    {SetCookieParts(received[i].set_cookie.val)[2] :
        i \in {j \in 1..Len(received) : received[j].set_cookie.some}}

\* the request of a caller's operation, before the Cookie header
ThreadRequest(op) ==
    IF op = "update" THEN update_request("ark:/99999/fk4", Dict(<<>>))
    ELSE delete_request("ark:/99999/fk4")

\* the step after the last step of a session_id assignment
AfterSetter(pc) == IF pc \in {"check1", "cookie1"} THEN "return" ELSE "get_check"

InitConc ==
    /\ credentials = [some |-> TRUE, username |-> <<"u">>, password |-> <<"p">>]
    /\ session_id = None
    /\ cookie = None
    /\ before = init(None)
    /\ sent = <<>>
    /\ received = <<>>
    /\ result = Return(None)
    /\ called = Call("", "", NoData)
    /\ nlogin = 0
    /\ ncalls = 0
    /\ version = "0.3"
    /\ pure = NoPure
    /\ cli = NoCli
    /\ threads \in [Threads -> {[op |-> op, pc |-> "check", val |-> None, tmp |-> None,
                                 hdr |-> None] : op \in ThreadOps}]

ConcFrame == UNCHANGED <<credentials, result, before, called, ncalls, version, pure, cli>>

\* if not self.session_id:
CheckSession(t) ==
    /\ threads[t].pc = "check"
    /\ threads' = [threads EXCEPT ![t].pc = IF Truthy(session_id) THEN "get_check"
                                           ELSE "login_send"]
    /\ UNCHANGED <<session_id, cookie, sent, received, nlogin>>
    /\ ConcFrame

\* login: requests.get(url, auth=auth) goes out
LoginSend(t) ==
    /\ threads[t].pc = "login_send"
    /\ sent' = Append(sent, [Request("login", "") EXCEPT !.auth = credentials])
    /\ nlogin' = nlogin + 1
    /\ threads' = [threads EXCEPT ![t].pc = "login_recv"]
    /\ UNCHANGED <<session_id, cookie, received>>
    /\ ConcFrame

\* login: the response, raise_for_status, the parsing of Set-Cookie
LoginReceive(t) ==
    /\ threads[t].pc = "login_recv"
    /\ \E resp \in {Response(401, None, <<>>)}
                     \cup {Response(200, Str(SessionIdEq \o s \o <<";", " ", "x">>), <<>>) :
                             s \in IssuedIds \ CompletedIds} :
         /\ received' = Append(received, resp)
         /\ threads' = IF raise_for_status(resp.status)
                       THEN [threads EXCEPT ![t].pc = "raised"]
                       ELSE [threads EXCEPT ![t].pc = "store1",
                                            ![t].val = Str(SetCookieParts(resp.set_cookie.val)[2])]
    /\ UNCHANGED <<session_id, cookie, sent, nlogin>>
    /\ ConcFrame

\* setter: self._session_id = sid
SetterStore(t) ==
    /\ threads[t].pc \in {"store1", "store2"}
    /\ session_id' = threads[t].val
    /\ threads' = [threads EXCEPT ![t].pc = IF threads[t].pc = "store1" THEN "check1"
                                           ELSE "check2"]
    /\ UNCHANGED <<cookie, sent, received, nlogin>>
    /\ ConcFrame

\* setter: if self._session_id:
SetterCheck(t) ==
    /\ threads[t].pc \in {"check1", "check2"}
    /\ threads' = [threads EXCEPT ![t].pc =
                       IF ~Truthy(session_id) THEN AfterSetter(threads[t].pc)
                       ELSE IF threads[t].pc = "check1" THEN "load1" ELSE "load2"]
    /\ UNCHANGED <<session_id, cookie, sent, received, nlogin>>
    /\ ConcFrame

\* setter: "sessionid=" + self._session_id is evaluated
SetterLoad(t) ==
    /\ threads[t].pc \in {"load1", "load2"}
    /\ threads' = [threads EXCEPT ![t].tmp = CookieFor(session_id),
                                  ![t].pc = IF threads[t].pc = "load1" THEN "cookie1"
                                            ELSE "cookie2"]
    /\ UNCHANGED <<session_id, cookie, sent, received, nlogin>>
    /\ ConcFrame

\* setter: self._cookie = ...
SetterCookie(t) ==
    /\ threads[t].pc \in {"cookie1", "cookie2"}
    /\ cookie' = threads[t].tmp
    /\ threads' = [threads EXCEPT ![t].pc = AfterSetter(threads[t].pc)]
    /\ UNCHANGED <<session_id, sent, received, nlogin>>
    /\ ConcFrame

\* login: return self.session_id, the value the operation assigns again
LoginReturn(t) ==
    /\ threads[t].pc = "return"
    /\ threads' = [threads EXCEPT ![t].val = session_id, ![t].pc = "store2"]
    /\ UNCHANGED <<session_id, cookie, sent, received, nlogin>>
    /\ ConcFrame

\* _get_request: if self._cookie:
GetCheck(t) ==
    /\ threads[t].pc = "get_check"
    /\ threads' = [threads EXCEPT ![t].pc = IF Truthy(cookie) THEN "get_load" ELSE "send"]
    /\ UNCHANGED <<session_id, cookie, sent, received, nlogin>>
    /\ ConcFrame

\* _get_request: request.add_header("Cookie", self._cookie)
GetLoad(t) ==
    /\ threads[t].pc = "get_load"
    /\ threads' = [threads EXCEPT ![t].hdr = cookie, ![t].pc = "send"]
    /\ UNCHANGED <<session_id, cookie, sent, received, nlogin>>
    /\ ConcFrame

\* _get_request: self._opener.open(request) sends the request
Send(t) ==
    /\ threads[t].pc = "send"
    /\ sent' = Append(sent, [ThreadRequest(threads[t].op) EXCEPT !.cookie = threads[t].hdr])
    /\ threads' = [threads EXCEPT ![t].pc = "recv"]
    /\ UNCHANGED <<session_id, cookie, received, nlogin>>
    /\ ConcFrame

\* _get_request: the response; the opener raises or the body is returned
Receive(t) ==
    /\ threads[t].pc = "recv"
    /\ \E resp \in {Response(200, None, <<>>), Response(401, None, <<"e">>)} :
         /\ received' = Append(received, resp)
         /\ threads' = [threads EXCEPT ![t].pc = IF OpenerRaises(resp.status) THEN "raised"
                                                ELSE "returned"]
    /\ UNCHANGED <<session_id, cookie, sent, nlogin>>
    /\ ConcFrame

NextConc ==
    \E t \in Threads :
        \/ CheckSession(t)
        \/ LoginSend(t)
        \/ LoginReceive(t)
        \/ SetterStore(t)
        \/ SetterCheck(t)
        \/ SetterLoad(t)
        \/ SetterCookie(t)
        \/ LoginReturn(t)
        \/ GetCheck(t)
        \/ GetLoad(t)
        \/ Send(t)
        \/ Receive(t)

SpecConc == InitConc /\ [][NextConc]_vars

----------------------------------------------------------------------------
\* Properties of concurrent callers.

\* both callers are out of their operation
AllDone == \A t \in Threads : threads[t].pc \in {"returned", "raised"}

\* the requests of the operations themselves
MutatingRequests == {i \in 1..Len(sent) : sent[i].path /= "login"}

\* the Cookie header of a session some login has returned
FromCompletedLogin(c) == \E s \in CompletedIds : c = Str(SessionIdEq \o s)

====
